---- MODULE Spec2Model ----
(***************************************************************************)
(* A model of the multi-node RPC client of lib/rpc.py: NodeController (one *)
(* HTTP exchange with one node), Client (the fan-out over a node list) and *)
(* the call_* wrappers of RpcRunner that drive a Client through            *)
(* connect_list / connect, run and getresult.                              *)
(*                                                                         *)
(* Byte strings are sequences of one-character strings.  Python values are *)
(* tagged tuples <<tag, payload>>: the tag is compared first, so values of *)
(* different Python types are never compared payload to payload.          *)
(***************************************************************************)
EXTENDS Integers, Sequences, FiniteSets, TLC

(***************************************************************************)
(* Bounds and input sets                                                   *)
(***************************************************************************)

\* Longest node_list handed to a call (repeated nodes allowed).
MaxList == 2

\* Most run() calls made on one Client that is driven call by call.
MaxRuns == 2

\* The node names a node_list is drawn from.
Nodes == {"n1", "n2"}

(***************************************************************************)
(* Python values                                                           *)
(***************************************************************************)

PyFalse == <<"bool", FALSE>>
PyTrue == <<"bool", TRUE>>
PyNone == <<"none", 0>>

PyInt(n) == <<"int", n>>

PyStr(chars) == <<"str", chars>>

PyList(elems) == <<"list", elems>>

(***************************************************************************)
(* Decimal text: str(int) and int(str)                                     *)
(***************************************************************************)

Digits == <<"0", "1", "2", "3", "4", "5", "6", "7", "8", "9">>

IsDigit(c) == \E d \in 1..10 : Digits[d] = c

DigitVal(c) == (CHOOSE d \in 1..10 : Digits[d] = c) - 1

\* str(n) for n >= 0: the decimal digits of n, most significant first.
RECURSIVE str(_)
str(n) ==
  IF n < 10 THEN <<Digits[n + 1]>>
  ELSE str(n \div 10) \o <<Digits[(n % 10) + 1]>>

RECURSIVE DigitsValue(_, _)
DigitsValue(s, acc) ==
  IF s = <<>> THEN acc
  ELSE DigitsValue(Tail(s), acc * 10 + DigitVal(Head(s)))

\* int(s): the number a non-empty all-digit string denotes; anything else
\* raises ValueError (ok = FALSE).
int(s) ==
  IF Len(s) > 0 /\ \A i \in 1..Len(s) : IsDigit(s[i])
  THEN [ok |-> TRUE, v |-> DigitsValue(s, 0)]
  ELSE [ok |-> FALSE, v |-> 0]

(***************************************************************************)
(* simplejson.dumps / simplejson.loads                                     *)
(***************************************************************************)

RECURSIVE JoinElems(_, _)
RECURSIVE dumps(_)

\* The encoded elements of a list, separated by ", " (dumps' default
\* item separator).
JoinElems(elems, i) ==
  IF i > Len(elems) THEN <<>>
  ELSE (IF i > 1 THEN <<",", " ">> ELSE <<>>)
         \o dumps(elems[i]) \o JoinElems(elems, i + 1)

dumps(v) ==
  CASE v[1] = "bool" -> IF v[2] THEN <<"t", "r", "u", "e">>
                        ELSE <<"f", "a", "l", "s", "e">>
    [] v[1] = "none" -> <<"n", "u", "l", "l">>
    [] v[1] = "int" -> str(v[2])
    [] v[1] = "str" -> <<"\"">> \o v[2] \o <<"\"">>
    [] v[1] = "list" -> <<"[">> \o JoinElems(v[2], 1) \o <<"]">>

\* A parse result: ok, the value, and the index of the first unread byte.
ParseFail == [ok |-> FALSE, val |-> PyNone, next |-> 0]

ParseOk(v, n) == [ok |-> TRUE, val |-> v, next |-> n]

IsSpace(c) == c \in {" ", "\t", "\n", "\r"}

RECURSIVE SkipSpace(_, _)
SkipSpace(s, i) ==
  IF i <= Len(s) /\ IsSpace(s[i]) THEN SkipSpace(s, i + 1) ELSE i

\* Whether the bytes of s from index i on start with the literal lit.
StartsWith(s, i, lit) ==
  /\ i + Len(lit) - 1 <= Len(s)
  /\ \A k \in 1..Len(lit) : s[i + k - 1] = lit[k]

\* The index after the run of digits that starts at i.
RECURSIVE DigitsEnd(_, _)
DigitsEnd(s, i) ==
  IF i <= Len(s) /\ IsDigit(s[i]) THEN DigitsEnd(s, i + 1) ELSE i

\* The index of the closing quote of the string whose body starts at i, or
\* 0 when the string is not terminated.
RECURSIVE QuoteEnd(_, _)
QuoteEnd(s, i) ==
  IF i > Len(s) THEN 0
  ELSE IF s[i] = "\"" THEN i
  ELSE QuoteEnd(s, i + 1)

RECURSIVE ParseValue(_, _)
RECURSIVE ParseElems(_, _, _)

\* The elements of a list after its "[": value ("," value)* "]".
ParseElems(s, i, acc) ==
  LET r == ParseValue(s, SkipSpace(s, i))
      j == SkipSpace(s, r.next)
  IN IF ~r.ok THEN ParseFail
     ELSE IF j > Len(s) THEN ParseFail
     ELSE IF s[j] = "]" THEN ParseOk(PyList(Append(acc, r.val)), j + 1)
     ELSE IF s[j] = "," THEN ParseElems(s, j + 1, Append(acc, r.val))
     ELSE ParseFail

\* One JSON value starting at index i (no leading space).
ParseValue(s, i) ==
  IF i > Len(s) THEN ParseFail
  ELSE IF StartsWith(s, i, <<"f", "a", "l", "s", "e">>)
    THEN ParseOk(PyFalse, i + 5)
  ELSE IF StartsWith(s, i, <<"t", "r", "u", "e">>)
    THEN ParseOk(PyTrue, i + 4)
  ELSE IF StartsWith(s, i, <<"n", "u", "l", "l">>)
    THEN ParseOk(PyNone, i + 4)
  ELSE IF s[i] = "0" THEN ParseOk(PyInt(0), i + 1)
  ELSE IF IsDigit(s[i])
    THEN LET e == DigitsEnd(s, i)
         IN ParseOk(PyInt(DigitsValue(SubSeq(s, i, e - 1), 0)), e)
  ELSE IF s[i] = "\""
    THEN LET q == QuoteEnd(s, i + 1)
         IN IF q = 0 THEN ParseFail
            ELSE ParseOk(PyStr(SubSeq(s, i + 1, q - 1)), q + 1)
  ELSE IF s[i] = "["
    THEN LET j == SkipSpace(s, i + 1)
         IN IF j <= Len(s) /\ s[j] = "]" THEN ParseOk(PyList(<<>>), j + 1)
            ELSE ParseElems(s, j, <<>>)
  ELSE ParseFail

\* simplejson.loads(s): the value s encodes; ok = FALSE stands for the
\* ValueError raised on malformed, truncated or trailing data.
loads(s) ==
  LET r == ParseValue(s, SkipSpace(s, 1))
  IN IF r.ok /\ SkipSpace(s, r.next) = Len(s) + 1 THEN r ELSE ParseFail

(***************************************************************************)
(* The calls and the nodes' behaviours the model draws from                *)
(***************************************************************************)

\* utils.GetNodeDaemonPort(): the cluster-wide node daemon port.
GetNodeDaemonPort == "noded-port"

\* The (procedure, args) pairs of the modelled call_* wrappers: the
\* multi-node call_vg_list and call_volume_list (vg_name = "vg") and the
\* single-node call_bridges_exist (bridges_list = ["b"]).
Calls ==
  { [procedure |-> "vg_list", args |-> PyList(<<>>)],
    [procedure |-> "volume_list", args |-> PyList(<<PyStr(<<"v", "g">>)>>)],
    [procedure |-> "bridges_exist",
     args |-> PyList(<<PyList(<<PyStr(<<"b">>)>>)>>)] }

\* The wrappers that take one node and connect it with c.connect(node).
SingleNodeCalls == {"bridges_exist"}

\* Every node_list of at most MaxList entries (empty and repeated included).
NodeLists == UNION { [1..k -> Nodes] : k \in 0..MaxList }

\* The node lists a wrapper may be handed: a single-node wrapper takes one
\* node, a multi-node wrapper any node_list.
NodeListsOf(proc) ==
  IF proc \in SingleNodeCalls THEN [1..1 -> Nodes] ELSE NodeLists

\* What may happen when a NodeController opens its connection.
OpenOutcomes == {"sent", "connect_error", "send_error"}

\* Status codes a node answers with.
Statuses == {200, 500}

\* Content-Length headers a node answers with: none (<<>>), a non-numeric
\* one, or the decimal text of a declared length.
DeclaredLengths == {0, 1, 2, 5}

LengthHeaders ==
  {<<>>, << <<"x">> >>} \cup { <<str(k)>> : k \in DeclaredLengths }

\* Response bodies a node puts on the wire: nothing, an encoded false, an
\* encoded number and a truncated list.
Bodies ==
  { <<>>, <<"f", "a", "l", "s", "e">>, <<"1", "2">>, <<"[", "1">> }

\* A response as it arrives: status line, length header, body bytes.  The
\* responses are those of a persistent connection: the connection stays
\* open after them until somebody closes it.
Responses ==
  [status : Statuses, length : LengthHeaders, body : Bodies]

\* What getresponse() may meet: a response, or (<<>>) a connection that
\* breaks before a status line was read.
Arrivals == {<<>>} \cup { <<r>> : r \in Responses }

(***************************************************************************)
(* State                                                                   *)
(***************************************************************************)

VARIABLES
  node_list,    \* the node list handed to the call_* wrapper
  procedure,    \* Client.procedure
  args,         \* Client.args
  body,         \* Client.body
  port,         \* Client.port
  nc,           \* Client.nc: node -> index of its NodeController
  results,      \* Client.results: node -> value
  controllers,  \* every NodeController created, in creation order
  pc,           \* where the caller is: connect_list, run, returned,
                \* raised, blocked (in a read), idle (between calls)
  idx,          \* connect_list's position in node_list
  items,        \* run's nodes still to visit (of self.nc.items())
  exc,          \* the exception that left run(), "none" otherwise
  retval,       \* what the wrapper returned: <<>> before it returns
  runs,         \* how many times run() was entered
  world         \* node -> its behaviour when that is fixed beforehand;
                \* a node outside the domain behaves freely

vars ==
  << node_list, procedure, args, body, port, nc, results, controllers,
     pc, idx, items, exc, retval, runs, world >>

\* The empty dict.
EmptyDict == [n \in {} |-> PyNone]

\* d with d[k] = v set (a dict assignment).
DictSet(d, k, v) ==
  [x \in DOMAIN d \cup {k} |-> IF x = k THEN v ELSE d[x]]

(***************************************************************************)
(* NodeController                                                          *)
(***************************************************************************)

\* Faulty variant of Request: the declared length counts one byte more
\* than the body has.
Request_length_off_by_one(proc, bdy) ==
  [ method |-> "PUT",
    path |-> <<"/", proc>>,
    content_length |-> str(Len(bdy) + 1),
    body |-> bdy ]

\* The request NodeController.__init__ writes for its parent Client:
\* PUT /<procedure>, Content-Length: str(len(body)), then the body.
Request(proc, bdy) ==
  [ method |-> "PUT",
    path |-> <<"/", proc>>,
    content_length |-> str(Len(bdy)),
    body |-> bdy ]

\* NodeController.__init__(parent, node) when the connection behaves as
\* outcome o.  http_conn records what the connection did: whether it
\* connected (and, nothing closing it, is still open), the request handed
\* to it, whether the send completed, the response that arrived, how many
\* times getresponse() read from it, the bytes resp.read returned and
\* whether the payload went to loads.
HTTPConnection(node, prt, proc, bdy, o) ==
  [ host |-> node,
    port |-> prt,
    connected |-> (o # "connect_error"),
    request |-> IF o = "connect_error" THEN <<>>
                ELSE <<Request(proc, bdy)>>,
    delivered |-> (o = "sent"),
    response |-> <<>>,
    getresponse_calls |-> 0,
    read |-> <<>>,
    loaded |-> FALSE ]

\* Faulty variant of NodeController: socket.error is not caught and leaves
\* the constructor.
NodeController_uncaught(node, prt, proc, bdy, o) ==
  [ self |->
      [ node |-> node,
        failed |-> FALSE,
        awaited |-> 0,
        http_conn |-> HTTPConnection(node, prt, proc, bdy, o) ],
    raised |-> (o # "sent") ]

\* The constructor's result: the object (self) and whether an exception
\* left the constructor.  socket.error from connect or send is caught and
\* sets failed, so nothing is raised.  awaited counts the get_response
\* calls on the object that returned a value.
NodeController(node, prt, proc, bdy, o) ==
  [ self |->
      [ node |-> node,
        failed |-> (o # "sent"),
        awaited |-> 0,
        http_conn |-> HTTPConnection(node, prt, proc, bdy, o) ],
    raised |-> FALSE ]

\* resp.getheader('Content-Length', '0').
getheader(resp) ==
  IF resp.length = <<>> THEN <<"0">> ELSE resp.length[1]

\* resp.read(length): at most length bytes of what the node sent.
read(resp, length) ==
  IF length <= Len(resp.body) THEN SubSeq(resp.body, 1, length)
  ELSE resp.body

\* What a get_response call did: the value returned (ret) or the exception
\* raised (raised, exc), whether getresponse() was called (io), the
\* response it met, the bytes resp.read returned and whether they went to
\* loads.  NoExchange is the call that did nothing and returns False.
NoExchange ==
  [ raised |-> FALSE, exc |-> "none", ret |-> PyFalse, io |-> FALSE,
    response |-> <<>>, read |-> <<>>, loaded |-> FALSE ]

\* get_response from resp.read on: the payload is read and decoded, and a
\* ValueError of loads is not caught.
unload_payload(got, resp, length) ==
  LET payload == read(resp, length)
      unload == loads(payload)
      rd == [got EXCEPT !.read = <<payload>>, !.loaded = TRUE]
  IN IF ~unload.ok
     THEN [rd EXCEPT !.raised = TRUE, !.exc = "ValueError"]
     ELSE [rd EXCEPT !.ret = unload.val]

\* Faulty variant of check_length: a length of zero is not rejected.
check_length_zero_accepted(got, resp) ==
  LET length == int(getheader(resp))
  IN IF ~length.ok THEN got
     ELSE unload_payload(got, resp, length.v)

\* Faulty variant of check_length: the ValueError of int() is not caught.
check_length_uncaught(got, resp) ==
  LET length == int(getheader(resp))
  IN IF ~length.ok
     THEN [got EXCEPT !.raised = TRUE, !.exc = "ValueError"]
     ELSE IF length.v = 0 THEN got
     ELSE unload_payload(got, resp, length.v)

\* get_response from the Content-Length header on: a header that is not a
\* number, or a length of zero, returns False.
check_length(got, resp) ==
  LET length == int(getheader(resp))
  IN IF ~length.ok THEN got
     ELSE IF length.v = 0 THEN got
     ELSE unload_payload(got, resp, length.v)

\* Faulty variant of check_status: the status is not looked at.
check_status_ignored(got, resp) == check_length(got, resp)

\* get_response from the status check on: any status but 200 returns
\* False.
check_status(got, resp) ==
  IF resp.status # 200 THEN got
  ELSE check_length(got, resp)

\* NodeController.get_response for a controller c when arrival a is what
\* the connection delivers: a controller that failed at open returns False
\* at once; an exception of getresponse() is not caught.  A connection
\* whose response was already taken has no request outstanding, and its
\* getresponse() raises ResponseNotReady without reading.
get_response(c, a) ==
  IF c.failed THEN NoExchange
  ELSE IF c.http_conn.response # <<>>
    THEN [NoExchange EXCEPT !.raised = TRUE, !.exc = "ResponseNotReady",
                            !.response = c.http_conn.response,
                            !.read = c.http_conn.read,
                            !.loaded = c.http_conn.loaded]
  ELSE IF a = <<>>
    THEN [NoExchange EXCEPT !.raised = TRUE, !.exc = "HTTPException",
                            !.io = TRUE]
  ELSE check_status([NoExchange EXCEPT !.io = TRUE, !.response = a], a[1])

(***************************************************************************)
(* Client and the call_* wrappers                                          *)
(***************************************************************************)

\* Faulty variant of Client: results is one dict shared by every Client (a
\* class attribute) and still holds an earlier call's entry.
Client_shared_results(proc, arguments) ==
  [ port |-> GetNodeDaemonPort,
    nc |-> EmptyDict,
    results |-> DictSet(EmptyDict, "n1", PyFalse),
    procedure |-> proc,
    args |-> arguments,
    body |-> dumps(arguments) ]

\* Client.__init__(procedure, args): the fields of a new Client.
Client(proc, arguments) ==
  [ port |-> GetNodeDaemonPort,
    nc |-> EmptyDict,
    results |-> EmptyDict,
    procedure |-> proc,
    args |-> arguments,
    body |-> dumps(arguments) ]

\* c = Client(procedure, args) in a caller that has made no call on c yet.
NewClient(call) ==
  LET c == Client(call.procedure, call.args)
  IN /\ procedure = c.procedure
     /\ args = c.args
     /\ body = c.body
     /\ port = c.port
     /\ nc = c.nc
     /\ results = c.results
     /\ controllers = <<>>
     /\ idx = 1
     /\ items = {}
     /\ exc = "none"
     /\ retval = <<>>
     /\ runs = 0

\* c = Client(procedure, args) in a call_* wrapper, about to connect the
\* wrapper's node_list (connect_list) or its one node (connect).
Init ==
  /\ \E call \in Calls :
       /\ NewClient(call)
       /\ node_list \in NodeListsOf(call.procedure)
  /\ pc = "connect_list"
  /\ world = EmptyDict

\* The ways the connection to node may behave at open.
OpenChoices(node) ==
  IF node \in DOMAIN world THEN {world[node].open} ELSE OpenOutcomes

\* Faulty variant of ArrivalChoices: the controllers read one shared
\* connection, so the k-th await gets the answer to the k-th request.
ArrivalChoices_shared_connection(node) ==
  IF node \in DOMAIN world
  THEN LET k == Cardinality(DOMAIN nc) - Cardinality(items) + 1
           order == [i \in 1..Len(controllers) |-> controllers[i].node]
       IN {world[order[k]].arrival}
  ELSE Arrivals

\* What getresponse() may meet on the connection to node: each controller
\* reads its own connection, so the answer is node's.
ArrivalChoices(node) ==
  IF node \in DOMAIN world THEN {world[node].arrival} ELSE Arrivals

\* Faulty variant of connect: failed is one flag shared by every
\* NodeController (a class attribute), so a failed open marks them all.
connect_shared_failed(connect_node, o) ==
  LET r == NodeController(connect_node, port, procedure, body, o)
      marked == [i \in 1..Len(controllers) |->
                   [controllers[i] EXCEPT !.failed = @ \/ r.self.failed]]
  IN /\ controllers' = Append(marked, r.self)
     /\ nc' = DictSet(nc, connect_node, Len(controllers) + 1)
     /\ UNCHANGED << pc, exc >>

\* Faulty variant of connect: a node that self.nc already holds keeps its
\* first NodeController.
connect_keeps_first(connect_node, o) ==
  LET r == NodeController(connect_node, port, procedure, body, o)
  IN /\ controllers' = Append(controllers, r.self)
     /\ nc' = IF connect_node \in DOMAIN nc THEN nc
              ELSE DictSet(nc, connect_node, Len(controllers) + 1)
     /\ UNCHANGED << pc, exc >>

\* Client.connect(connect_node): a new NodeController replaces whatever
\* self.nc held for the node.
connect(connect_node, o) ==
  LET r == NodeController(connect_node, port, procedure, body, o)
  IN /\ controllers' = Append(controllers, r.self)
     /\ IF r.raised
        THEN /\ pc' = "raised"
             /\ exc' = "socket.error"
             /\ UNCHANGED nc
        ELSE /\ nc' = DictSet(nc, connect_node, Len(controllers) + 1)
             /\ UNCHANGED << pc, exc >>

\* One iteration of connect_list's loop; an exception out of connect would
\* end the loop where it stands.
connect_list ==
  /\ pc = "connect_list"
  /\ idx <= Len(node_list)
  /\ \E o \in OpenChoices(node_list[idx]) : connect(node_list[idx], o)
  /\ idx' = IF pc' = "raised" THEN idx ELSE idx + 1
  /\ UNCHANGED << node_list, procedure, args, body, port, results, items,
                  retval, runs, world >>

\* Faulty variant of run_begin: run() is entered as soon as one node is
\* opened, with node_list not yet exhausted.
run_begin_inside_loop ==
  /\ pc = "connect_list"
  /\ idx > 1
  /\ pc' = "run"
  /\ items' = DOMAIN nc
  /\ runs' = runs + 1
  /\ UNCHANGED << node_list, procedure, args, body, port, nc, results,
                  controllers, idx, exc, retval, world >>

\* connect_list has returned and run() takes self.nc.items().
run_begin ==
  /\ pc = "connect_list"
  /\ idx > Len(node_list)
  /\ pc' = "run"
  /\ items' = DOMAIN nc
  /\ runs' = runs + 1
  /\ UNCHANGED << node_list, procedure, args, body, port, nc, results,
                  controllers, idx, exc, retval, world >>

\* One iteration of run's loop, for whichever node the dict yields next:
\* self.results[node] = nc.get_response().  An exception leaves run() and
\* the wrapper without the assignment.
run ==
  /\ pc = "run"
  /\ \E node \in items : \E a \in ArrivalChoices(node) :
       LET i == nc[node]
           c == controllers[i]
           r == get_response(c, a)
           hc == [c.http_conn EXCEPT
                    !.response = r.response,
                    !.getresponse_calls = @ + (IF r.io THEN 1 ELSE 0),
                    !.read = r.read,
                    !.loaded = r.loaded]
       IN /\ controllers' =
               [controllers EXCEPT
                  ![i].http_conn = hc,
                  ![i].awaited = @ + (IF r.raised THEN 0 ELSE 1)]
          /\ IF r.raised
             THEN /\ pc' = "raised"
                  /\ exc' = r.exc
                  /\ UNCHANGED results
             ELSE /\ results' = DictSet(results, node, r.ret)
                  /\ UNCHANGED << pc, exc >>
          /\ items' = items \ {node}
  /\ UNCHANGED << node_list, procedure, args, body, port, nc, idx,
                  retval, runs, world >>

\* The iteration of run's loop that never ends: the node took the request
\* and sends nothing, the connection has no timeout, and getresponse()
\* waits in its read for ever.
run_blocked ==
  /\ pc = "run"
  /\ \E node \in items :
       LET i == nc[node]
           c == controllers[i]
       IN /\ ~c.failed
          /\ c.http_conn.response = <<>>
          /\ node \notin DOMAIN world
          /\ controllers' =
               [controllers EXCEPT ![i].http_conn.getresponse_calls = @ + 1]
  /\ pc' = "blocked"
  /\ UNCHANGED << node_list, procedure, args, body, port, nc, results,
                  idx, items, exc, retval, runs, world >>

\* Faulty variant of get: the key is never found.
get_key_never_found(d, k, default) ==
  [value |-> default, defaulted |-> TRUE]

\* dict.get(k, default): d[k], or default when d has no key k (defaulted
\* tells which).
get(d, k, default) ==
  IF k \in DOMAIN d THEN [value |-> d[k], defaulted |-> FALSE]
  ELSE [value |-> default, defaulted |-> TRUE]

\* run() has visited every item and the wrapper returns: c.getresult() in
\* a multi-node wrapper, c.getresult().get(node, False) in a single-node
\* one.
getresult ==
  /\ pc = "run"
  /\ items = {}
  /\ pc' = "returned"
  /\ retval' =
       IF procedure \in SingleNodeCalls
       THEN <<get(results, node_list[1], PyFalse)>>
       ELSE <<[value |-> results, defaulted |-> FALSE]>>
  /\ UNCHANGED << node_list, procedure, args, body, port, nc, results,
                  controllers, idx, items, exc, runs, world >>

Next ==
  \/ connect_list
  \/ run_begin
  \/ run
  \/ run_blocked
  \/ getresult

Spec == Init /\ [][Next]_vars

(***************************************************************************)
(* The wrapper among nodes whose behaviour is fixed beforehand             *)
(***************************************************************************)

\* What one node does during a call: how the open goes and, when the
\* request was sent, what getresponse() meets.
Behaviours ==
  { [open |-> o, arrival |-> <<>>] : o \in OpenOutcomes \ {"sent"} }
    \cup { [open |-> "sent", arrival |-> a] : a \in Arrivals }

\* call_vg_list(node_list) where every node of node_list has one fixed
\* behaviour; the order of node_list and the order in which run() visits
\* the nodes stay free.
InitOrder ==
  /\ \E call \in Calls :
       /\ call.procedure = "vg_list"
       /\ NewClient(call)
  /\ node_list \in NodeLists
  /\ pc = "connect_list"
  /\ world \in [{ node_list[i] : i \in 1..Len(node_list) } -> Behaviours]

NextOrder ==
  \/ connect_list
  \/ run_begin
  \/ run
  \/ getresult

SpecOrder == InitOrder /\ [][NextOrder]_vars

(***************************************************************************)
(* A Client driven call by call                                            *)
(***************************************************************************)

\* c = Client("volume_list", ["vg"]) in a caller that calls connect and
\* run on it as it likes; node_list records the nodes connected so far.
InitClient ==
  /\ \E call \in Calls :
       /\ call.procedure = "volume_list"
       /\ NewClient(call)
  /\ node_list = <<>>
  /\ pc = "idle"
  /\ world = EmptyDict

\* Faulty variant of client_connect: a failed open is recorded in results
\* at once, as a False result.
client_connect_records_failure ==
  /\ pc = "idle"
  /\ Len(controllers) < MaxList
  /\ \E node \in Nodes :
       /\ \E o \in OpenChoices(node) :
            /\ connect(node, o)
            /\ results' = IF o = "sent" THEN results
                          ELSE DictSet(results, node, PyFalse)
       /\ node_list' = Append(node_list, node)
  /\ UNCHANGED << procedure, args, body, port, idx, items,
                  retval, runs, world >>

\* The caller calls c.connect(node).
client_connect ==
  /\ pc = "idle"
  /\ Len(controllers) < MaxList
  /\ \E node \in Nodes :
       /\ \E o \in OpenChoices(node) : connect(node, o)
       /\ node_list' = Append(node_list, node)
  /\ UNCHANGED << procedure, args, body, port, results, idx, items,
                  retval, runs, world >>

\* The caller calls c.run(): run() takes self.nc.items().
client_run ==
  /\ pc = "idle"
  /\ runs < MaxRuns
  /\ pc' = "run"
  /\ items' = DOMAIN nc
  /\ runs' = runs + 1
  /\ UNCHANGED << node_list, procedure, args, body, port, nc, results,
                  controllers, idx, exc, retval, world >>

\* run() has visited every item and returns to the caller.
client_run_return ==
  /\ pc = "run"
  /\ items = {}
  /\ pc' = "idle"
  /\ UNCHANGED << node_list, procedure, args, body, port, nc, results,
                  controllers, idx, items, exc, retval, runs, world >>

\* The caller calls c.getresult() between two calls: it is handed
\* self.results as it stands.
client_getresult ==
  /\ pc = "idle"
  /\ retval' = <<[value |-> results, defaulted |-> FALSE]>>
  /\ UNCHANGED << node_list, procedure, args, body, port, nc, results,
                  controllers, pc, idx, items, exc, runs, world >>

NextClient ==
  \/ client_connect
  \/ client_run
  \/ run
  \/ run_blocked
  \/ client_run_return

SpecClient == InitClient /\ [][NextClient]_vars

(***************************************************************************)
(* A Client driven call by call among nodes whose behaviour is fixed       *)
(***************************************************************************)

\* c = Client("volume_list", ["vg"]) in a caller that calls connect, run
\* and getresult on it as it likes, every node having one fixed behaviour.
InitSession ==
  /\ \E call \in Calls :
       /\ call.procedure = "volume_list"
       /\ NewClient(call)
  /\ node_list = <<>>
  /\ pc = "idle"
  /\ world \in [Nodes -> Behaviours]

NextSession ==
  \/ client_connect
  \/ client_run
  \/ run
  \/ client_run_return
  \/ client_getresult

SpecSession == InitSession /\ [][NextSession]_vars

(***************************************************************************)
(* Vocabulary of the properties                                            *)
(***************************************************************************)

\* The set of nodes the call was asked to contact.
Requested == { node_list[i] : i \in 1..Len(node_list) }

\* The wrapper is over: it returned the result map or an exception left it.
Ended == pc \in {"returned", "raised"}

\* The NodeController self.nc holds for node n.
Ctl(n) == controllers[nc[n]]

\* A response arrived on controller c's connection.
HasResponse(c) == Len(c.http_conn.response) = 1

Resp(c) == c.http_conn.response[1]

\* The response carries a Content-Length header that is a number.
DeclaresLength(r) == r.length # <<>> /\ int(r.length[1]).ok

Declared(r) == int(r.length[1]).v

\* c's exchange went through: status 200 and a payload that decoded.
Succeeded(c) ==
  /\ c.http_conn.loaded
  /\ loads(c.http_conn.read[1]).ok

Decoded(c) == loads(c.http_conn.read[1]).val

\* c's exchange failed at open, by its status or by its length header.
ExchangeFailed(c) ==
  \/ c.failed
  \/ /\ HasResponse(c)
     /\ \/ Resp(c).status # 200
        \/ ~DeclaresLength(Resp(c))
        \/ Declared(Resp(c)) = 0

(***************************************************************************)
(* Properties                                                              *)
(***************************************************************************)

\* C1: once the call is over it has returned a map whose key set is exactly
\* the set of requested nodes, whatever each node's exchange did: succeed,
\* fail to connect, answer a bad status, a bad length or an undecodable
\* payload (a connection that breaks before any answer is left aside).
C1_KeySetIsNodeSet ==
  (Ended /\ exc # "HTTPException") =>
    (pc = "returned" /\ DOMAIN results = Requested)

\* C2: in a call over two or more nodes, a failure at one node never aborts
\* the call, and every node's entry is the outcome of its own exchange
\* alone.
C2_FailureStaysLocal ==
  Cardinality(Requested) >= 2 =>
    /\ exc = "none"
    /\ Ended =>
         \A n \in Requested :
           /\ n \in DOMAIN results
           /\ results[n] = IF Succeeded(Ctl(n)) THEN Decoded(Ctl(n))
                           ELSE PyFalse

\* C3: in a returned map, the entry of a node that answered 200 with a
\* payload decoding to false differs from the entry of a node whose
\* exchange failed.
C3_FalseDiffersFromFailure ==
  pc = "returned" =>
    \A n, m \in DOMAIN results :
      ( /\ Succeeded(Ctl(n))
        /\ Decoded(Ctl(n)) = PyFalse
        /\ ExchangeFailed(Ctl(m)) )
      => results[n] # results[m]

\* C4: a connect or send failure is captured in the handle (failed is set)
\* and does not leave open: every entry of node_list is opened before run
\* starts, and a returned map holds False for a node whose open failed and
\* the decoded value for a node whose exchange succeeded.
C4_OpenFailureCaptured ==
  /\ \A i \in 1..Len(controllers) :
       ~controllers[i].http_conn.delivered => controllers[i].failed
  /\ pc # "connect_list" =>
       /\ idx > Len(node_list)
       /\ Len(controllers) = Len(node_list)
  /\ pc = "returned" =>
       \A n \in Requested :
         /\ n \in DOMAIN results
         /\ ~Ctl(n).http_conn.delivered => results[n] = PyFalse
         /\ Succeeded(Ctl(n)) => results[n] = Decoded(Ctl(n))

\* C4 witness: a returned map with a failure entry for an unreachable node
\* beside the decoded value of a node that answered.
C4_Witness ==
  /\ pc = "returned"
  /\ \E n, m \in DOMAIN results :
       /\ ~Ctl(n).http_conn.connected
       /\ results[n] = PyFalse
       /\ Succeeded(Ctl(m))
       /\ results[m] = PyInt(12)

\* C5: a call with an empty node list creates no NodeController (no
\* connection, no request, no read), records nothing and raises nothing.
C5_EmptyNodeList ==
  node_list = <<>> =>
    /\ controllers = <<>>
    /\ results = EmptyDict
    /\ nc = EmptyDict
    /\ pc # "raised"
    /\ exc = "none"

\* C5 witness: the call with an empty node list has returned.
C5_Witness ==
  /\ node_list = <<>>
  /\ pc = "returned"
  /\ DOMAIN results = {}

\* C6: the body is the encoding made when the Client was created, and every
\* request handed to a connection names the Client's procedure, carries
\* that very body and declares its length.
C6_SameRequestEverywhere ==
  /\ body = dumps(args)
  /\ \A i \in 1..Len(controllers) :
       LET rq == controllers[i].http_conn.request
       IN rq # <<>> =>
            /\ rq[1].path = <<"/", procedure>>
            /\ rq[1].body = body
            /\ int(rq[1].content_length).ok
            /\ int(rq[1].content_length).v = Len(rq[1].body)
  /\ \A i, j \in 1..Len(controllers) :
       LET ri == controllers[i].http_conn.request
           rj == controllers[j].http_conn.request
       IN (ri # <<>> /\ rj # <<>>) => ri = rj

\* C6 witness: two different nodes were sent a non-empty-argument request.
C6_Witness ==
  /\ Len(controllers) >= 2
  /\ controllers[1].node # controllers[2].node
  /\ controllers[1].http_conn.delivered
  /\ controllers[2].http_conn.delivered
  /\ Len(body) > 2

\* C7: once a response declaring length zero has arrived for a node, the
\* node's entry is False, and its payload was neither read nor decoded.
C7_ZeroLengthFails ==
  \A n \in DOMAIN nc :
    ( /\ HasResponse(Ctl(n))
      /\ DeclaresLength(Resp(Ctl(n)))
      /\ Declared(Resp(Ctl(n))) = 0 )
    => /\ n \in DOMAIN results
       /\ results[n] = PyFalse
       /\ Ctl(n).http_conn.read = <<>>
       /\ ~Ctl(n).http_conn.loaded

\* C7 witness: status 200, declared length zero and a body that would
\* decode, recorded as False.
C7_Witness ==
  \E n \in DOMAIN results :
    /\ HasResponse(Ctl(n))
    /\ Resp(Ctl(n)).status = 200
    /\ Resp(Ctl(n)).length = << <<"0">> >>
    /\ Resp(Ctl(n)).body = <<"1", "2">>
    /\ results[n] = PyFalse

\* C8: once a response with a status other than 200 has arrived for a node,
\* the node's entry is False, and its payload was neither read nor decoded.
C8_BadStatusFails ==
  \A n \in DOMAIN nc :
    (HasResponse(Ctl(n)) /\ Resp(Ctl(n)).status # 200)
    => /\ n \in DOMAIN results
       /\ results[n] = PyFalse
       /\ Ctl(n).http_conn.read = <<>>
       /\ ~Ctl(n).http_conn.loaded

\* C8 witness: status 500 with a well-formed length and payload, recorded
\* as False.
C8_Witness ==
  \E n \in DOMAIN results :
    /\ HasResponse(Ctl(n))
    /\ Resp(Ctl(n)).status = 500
    /\ Resp(Ctl(n)).length = << <<"2">> >>
    /\ Resp(Ctl(n)).body = <<"1", "2">>
    /\ results[n] = PyFalse

\* C9: a node that answered 200 with a positive declared length and a
\* payload that does not decode gets the entry False, and nothing is raised.
C9_MalformedPayloadFails ==
  \A n \in DOMAIN nc :
    ( /\ HasResponse(Ctl(n))
      /\ Resp(Ctl(n)).status = 200
      /\ DeclaresLength(Resp(Ctl(n)))
      /\ Declared(Resp(Ctl(n))) = Len(Resp(Ctl(n)).body)
      /\ ~loads(Resp(Ctl(n)).body).ok )
    => /\ pc # "raised"
       /\ n \in DOMAIN results
       /\ results[n] = PyFalse

\* C10: a node whose response declares a length other than the number of
\* body bytes available gets the entry False, never a value decoded from
\* the bytes that were read (stated for the runs in which nothing was
\* raised, so that an undecodable read does not decide it).
C10_LengthMismatchFails ==
  \A n \in DOMAIN nc :
    ( /\ HasResponse(Ctl(n))
      /\ Resp(Ctl(n)).status = 200
      /\ DeclaresLength(Resp(Ctl(n)))
      /\ Declared(Resp(Ctl(n))) # Len(Resp(Ctl(n)).body)
      /\ exc = "none" )
    => /\ n \in DOMAIN results
       /\ results[n] = PyFalse

\* C11: the call always terminates: in every state the call is over or can
\* take a further step; it never waits for ever in a response read.
C11_CallTerminates == Ended \/ ENABLED Next

\* C12: a response is awaited only when every entry of node_list has been
\* opened: once run() was entered, a read was made or a result recorded,
\* connect_list is through the whole list.
C12_OpenAllThenAwait ==
  ( \/ runs > 0
    \/ DOMAIN results # {}
    \/ \E i \in 1..Len(controllers) :
         \/ controllers[i].http_conn.getresponse_calls > 0
         \/ controllers[i].awaited > 0 )
  => /\ idx > Len(node_list)
     /\ Len(controllers) = Len(node_list)
     /\ Requested \subseteq DOMAIN nc

\* C12 witness: two nodes opened, the response of the first being read
\* while the second, opened too, is not yet awaited.
C12_Witness ==
  /\ pc = "run"
  /\ Len(controllers) = 2
  /\ controllers[1].node # controllers[2].node
  /\ controllers[1].http_conn.getresponse_calls = 1
  /\ controllers[2].http_conn.delivered
  /\ controllers[2].http_conn.getresponse_calls = 0

\* C13: a single-node wrapper that returns, returns the entry the result
\* map holds for its node; the default of get is not what it returns.
C13_SingleNodeResult ==
  (procedure \in SingleNodeCalls /\ pc = "returned") =>
    /\ Len(retval) = 1
    /\ node_list[1] \in DOMAIN results
    /\ ~retval[1].defaulted
    /\ retval[1].value = results[node_list[1]]

\* C13 witness: call_bridges_exist returned the value its node answered.
C13_Witness ==
  /\ procedure \in SingleNodeCalls
  /\ pc = "returned"
  /\ retval[1].value = PyInt(12)

\* C14: a controller that failed at open is never read from, and the entry
\* of its node in the returned map is False.
C14_OpenFailureTerminal ==
  \A i \in 1..Len(controllers) :
    controllers[i].failed =>
      /\ controllers[i].http_conn.getresponse_calls = 0
      /\ controllers[i].http_conn.response = <<>>
      /\ pc = "returned" => results[controllers[i].node] = PyFalse

\* C15: once a status 200 response whose Content-Length header is missing
\* or is not a number has arrived for a node, the node's entry is False
\* and its payload was neither read nor decoded.
C15_BadLengthHeaderFails ==
  \A n \in DOMAIN nc :
    ( /\ HasResponse(Ctl(n))
      /\ Resp(Ctl(n)).status = 200
      /\ ~DeclaresLength(Resp(Ctl(n))) )
    => /\ n \in DOMAIN results
       /\ results[n] = PyFalse
       /\ Ctl(n).http_conn.read = <<>>
       /\ ~Ctl(n).http_conn.loaded

\* C15 witness: one node answered 200 without a length header, another 200
\* with a non-numeric one, both with a body that would decode.
C15_Witness ==
  \E n, m \in DOMAIN results :
    /\ HasResponse(Ctl(n)) /\ HasResponse(Ctl(m))
    /\ Resp(Ctl(n)) = [status |-> 200, length |-> <<>>, body |-> <<"1", "2">>]
    /\ Resp(Ctl(m)) =
         [status |-> 200, length |-> << <<"x">> >>, body |-> <<"1", "2">>]
    /\ results[n] = PyFalse
    /\ results[m] = PyFalse

\* C16: when the call has returned, every NodeController it created sent at
\* most one request and, when the send succeeded, had its response
\* retrieved exactly once.
C16_EveryRequestAnswered ==
  pc = "returned" =>
    \A i \in 1..Len(controllers) :
      /\ Len(controllers[i].http_conn.request) <= 1
      /\ controllers[i].http_conn.delivered => controllers[i].awaited = 1

\* C17: no NodeController is awaited twice: get_response returns a value at
\* most once per controller and reads the connection at most once.
C17_NoSecondAwait ==
  \A i \in 1..Len(controllers) :
    /\ controllers[i].awaited <= 1
    /\ controllers[i].http_conn.getresponse_calls <= 1

\* C18: when the call has returned, no connection it opened is still open.
C18_ConnectionsReleased ==
  pc = "returned" =>
    \A i \in 1..Len(controllers) : ~controllers[i].http_conn.connected

\* The value get_response returns for node n when n behaves as world says.
Expected(n) ==
  get_response(
    NodeController(n, port, procedure, body, world[n].open).self,
    world[n].arrival).ret

\* Whether get_response raises for node n when n behaves as world says.
Raises(n) ==
  get_response(
    NodeController(n, port, procedure, body, world[n].open).self,
    world[n].arrival).raised

\* C19: with the behaviour of every node fixed, the outcome does not depend
\* on the order of node_list or on the order run() visits the nodes: a
\* call that returns, returns the map of each requested node to the value
\* its own behaviour gives, and a call raises only when some requested
\* node's behaviour makes get_response raise.
C19_OrderIndependent ==
  /\ pc = "returned" =>
       /\ DOMAIN results = Requested
       /\ \A n \in Requested : ~Raises(n) /\ results[n] = Expected(n)
  /\ pc = "raised" => \E n \in Requested : Raises(n)

\* C19 witness: a returned map over two nodes with different answers,
\* opened in the order n2, n1.
C19_Witness ==
  /\ pc = "returned"
  /\ node_list = <<"n2", "n1">>
  /\ results["n1"] = PyInt(12)
  /\ results["n2"] = PyFalse
  /\ world["n2"].open = "connect_error"

\* C20: a step changes at most the state of one controller and the entry
\* of that controller's node.  Opening adds one controller and leaves every
\* existing controller, every result and the nc entry of every other node
\* as they were; awaiting changes the connection record of the awaited
\* node's controller and that node's entry only, never a failed flag; the
\* Client's procedure, args, body and port never change.
C20_Frame ==
  [][ LET n == Len(controllers)
          CC == { i \in 1..n : controllers'[i] # controllers[i] }
          CR == { m \in DOMAIN results' :
                    m \notin DOMAIN results \/ results'[m] # results[m] }
      IN /\ procedure' = procedure
         /\ args' = args
         /\ body' = body
         /\ port' = port
         /\ Len(controllers') >= n
         /\ DOMAIN results \subseteq DOMAIN results'
         /\ Len(controllers') > n =>
              /\ Len(controllers') = n + 1
              /\ CC = {}
              /\ CR = {}
              /\ \A m \in DOMAIN nc :
                   m # controllers'[n + 1].node =>
                     (m \in DOMAIN nc' /\ nc'[m] = nc[m])
         /\ Len(controllers') = n =>
              /\ nc' = nc
              /\ (CC # {} \/ CR # {}) =>
                   \E node \in items :
                     /\ CC \subseteq {nc[node]}
                     /\ CR \subseteq {node}
         /\ \A i \in CC :
              /\ controllers'[i].failed = controllers[i].failed
              /\ controllers'[i].node = controllers[i].node
    ]_vars

\* C20 witness: the response of n1 was awaited and recorded while n2,
\* opened as well, has not been awaited yet.
C20_Witness ==
  /\ pc = "run"
  /\ items = {"n2"}
  /\ "n1" \in DOMAIN results
  /\ Ctl("n1").http_conn.getresponse_calls = 1
  /\ Ctl("n2").http_conn.getresponse_calls = 0

\* The index of the NodeController opened last for node n.
LastOpened(n) ==
  CHOOSE i \in 1..Len(controllers) :
    /\ controllers[i].node = n
    /\ \A j \in (i + 1)..Len(controllers) : controllers[j].node # n

\* The value an await of controller c returned, as c's record tells it:
\* the decoded payload when one was read and decoded, False otherwise.
Returned(c) ==
  IF ~c.failed /\ c.http_conn.loaded /\ loads(c.http_conn.read[1]).ok
  THEN Decoded(c)
  ELSE PyFalse

\* C21: every entry of node_list gets a NodeController of its own, with its
\* own connection and, when that connected, its own copy of the request;
\* self.nc holds for each node the NodeController opened last for it; a
\* NodeController that was replaced is never awaited; and the one entry
\* the result map holds for a node is the value the await of the node's
\* last NodeController returned.
C21_ReconnectReplaces ==
  /\ Len(controllers) = idx - 1
  /\ \A i \in 1..Len(controllers) :
       /\ controllers[i].node = node_list[i]
       /\ controllers[i].http_conn.host = node_list[i]
       /\ controllers[i].http_conn.connected =>
            controllers[i].http_conn.request = <<Request(procedure, body)>>
  /\ DOMAIN nc = { controllers[i].node : i \in 1..Len(controllers) }
  /\ \A n \in DOMAIN nc : nc[n] = LastOpened(n)
  /\ \A i \in 1..Len(controllers) :
       i # LastOpened(controllers[i].node) =>
         /\ controllers[i].awaited = 0
         /\ controllers[i].http_conn.getresponse_calls = 0
         /\ controllers[i].http_conn.response = <<>>
  /\ \A n \in DOMAIN results :
       /\ Ctl(n).awaited = 1
       /\ results[n] = Returned(Ctl(n))

\* C21 witness: n1 was connected twice and both requests were sent; the
\* call returned the answer read from the second NodeController, and the
\* first was never read.
C21_Witness ==
  /\ pc = "returned"
  /\ node_list = <<"n1", "n1">>
  /\ controllers[1].http_conn.delivered
  /\ controllers[2].http_conn.delivered
  /\ controllers[1].http_conn.getresponse_calls = 0
  /\ controllers[2].http_conn.getresponse_calls = 1
  /\ DOMAIN results = {"n1"}
  /\ results["n1"] = PyInt(12)

\* C22: the keys of results are always keys of self.nc; results changes
\* only in a step of run()'s loop, never in a step that opens a
\* NodeController; and a getresult() made before the first run() returned
\* the empty map, however many nodes were connected by then.
C22_ResultsOnlyByRun ==
  /\ [](DOMAIN results \subseteq DOMAIN nc)
  /\ []((runs = 0 /\ retval # <<>>) => retval[1].value = EmptyDict)
  /\ [][ /\ results' # results =>
              (pc = "run" /\ controllers' # controllers /\ nc' = nc)
         /\ Len(controllers') > Len(controllers) => results' = results
       ]_vars

\* C22 witness: getresult() returned the empty map with two nodes
\* connected, and the run() made afterwards recorded both nodes.
C22_Witness ==
  /\ Len(controllers) = 2
  /\ retval # <<>>
  /\ retval[1].value = EmptyDict
  /\ runs = 1
  /\ DOMAIN results = {"n1", "n2"}
  /\ results["n1"] = PyInt(12)

====
